---- MODULE Spec2Model ----
(***************************************************************************)
(* ring_promise: a worker thread owns a submission/completion ring; any    *)
(* number of caller threads submit entries through clones of PRingSender   *)
(* and read the completions through one-shot reply channels (promises).    *)
(* The model covers src/lib.rs (PRingSender, the worker closure) and       *)
(* src/registry.rs (Registry); the ring of src/traits.rs is the            *)
(* environment.                                                            *)
(***************************************************************************)
EXTENDS Integers, Sequences, FiniteSets, TLC

\* ---------------------------------------------------------------- bounds
\* Number of caller threads that may hold a clone of the PRingSender.
NumCallers == 2
\* Total number of submit() calls made over a run.
MaxSubmits == 4
\* Cap on the (unbounded) mpsc channel's length.
MaxChan == 2
\* Size of the tracking id space: the counter wraps modulo IdMod (2^64 in
\* the code).
IdMod == 3
\* Capacity of the ring: entries pushed and not yet reaped.  It is kept
\* below IdMod, as a ring holds fewer than 2^64 entries: with every id a key
\* next_uuid never returns.
Cap == 2
\* Number of completions the ring may produce that echo no submission.
MaxSpurious == 1
\* Number of promises callers drop without reading them.
MaxDrops == 1
\* Total number of submit() calls in the runs with spurious completions and
\* in the runs checked for liveness.
SpuriousSubmits == 3
LiveSubmits == 3

Ids == 0 .. (IdMod - 1)
Callers == 1 .. NumCallers
Subs == 1 .. MaxSubmits

\* A completion queue entry: the echoed user data and, as payload, the
\* submission it was produced for (0: produced for none).
NoVal == [ud |-> -1, sub |-> 0]

VARIABLES
  handles,   \* callers holding a live PRingSender clone (a Sender each)
  chan,      \* the mpsc channel: signals sent and not yet received
  nsub,      \* number of submit() calls made so far
  pc,        \* the worker: "idle" | "push" | "notify" | "postreap" |
             \* "terminated", or
             \* "spin" (next_uuid never returns) | "panicked"
  cur,       \* the entry the worker took last (entry_holder), its sender and
             \* whether a push of it has returned Err
  senders,   \* Registry.senders: user data -> submission whose tx is stored
  curr_ud,   \* Registry.curr_ud
  sq,        \* ring: entries pushed, backend not yet notified
  kernel,    \* ring: entries the backend was notified of, in progress
  cq,        \* ring: completions produced, not yet drained
  tx,        \* per submission, where the oneshot Sender is: "none" | "chan" |
             \* "reg" | "used" | "dropped", or "held" by a spinning worker
  rx,        \* per submission, the promise (oneshot Receiver): "none" |
             \* "pending" | "ok" | "err" (read) | "dropped"
  val,       \* per submission, the value sent on its oneshot channel
  sends,     \* history: number of send() calls made on each oneshot Sender
  accepted,  \* history: entries in the order push() returned Ok
  ignored,   \* history: user data of completions complete() found no sender for
  mixed,     \* history: two consecutive Entry signals came from different callers
  ops,       \* history: the ring operations the worker made for the signal it
             \* took last, in order; the rounds of a repeated failed push are
             \* recorded once
  nspur,     \* number of spurious completions the ring has produced
  sendFailed \* a send on the mpsc channel returned Err (the caller panics)

vars == <<handles, chan, nsub, pc, cur, senders, curr_ud, sq, kernel, cq,
          tx, rx, val, sends, accepted, ignored, mixed, ops, nspur, sendFailed>>

callerVars == <<handles, chan, nsub>>
ringVars == <<sq, kernel, cq>>
histVars == <<accepted, ignored, mixed, ops>>

\* ------------------------------------------------------------ finite maps
EmptyMap == [k \in {} |-> 0]
MapInsert(m, k, v) == [x \in (DOMAIN m) \cup {k} |-> IF x = k THEN v ELSE m[x]]
MapRemove(m, k) == [x \in (DOMAIN m) \ {k} |-> m[x]]

\* ---------------------------------------------------------------- signals
EntrySignal(s, c) == [type |-> "Entry", sub |-> s, by |-> c]
ReapSignal == [type |-> "Reap", sub |-> 0, by |-> 0]

\* ---------------------------------------------------------------- Registry
\* The worker-owned state Registry's methods act on, with the oneshot
\* channels its senders belong to.  panic: a method panicked.
World == [senders |-> senders, curr_ud |-> curr_ud, tx |-> tx, val |-> val,
          sends |-> sends, ignored |-> ignored, panic |-> FALSE]

IncrUd(w) == [out |-> w.curr_ud,
              w |-> [w EXCEPT !.curr_ud = (w.curr_ud + 1) % IdMod]]

RECURSIVE NextUuidLoop(_, _)
NextUuidLoop(w, fuel) ==
  LET i == IncrUd(w) IN
    IF i.out \notin DOMAIN i.w.senders THEN [id |-> i.out, w |-> i.w, found |-> TRUE]
    ELSE IF fuel = 0 THEN [id |-> i.out, w |-> i.w, found |-> FALSE]
    ELSE NextUuidLoop(i.w, fuel - 1)

\* Faulty variant: the counter's value is returned without the key check.
NextUuidNoSkip(w) ==
  LET i == IncrUd(w) IN [id |-> i.out, w |-> i.w, found |-> TRUE]
\* Faulty variant: the first check looks up the incremented counter, not
\* the id about to be returned.
NextUuidCheckCounter(w) ==
  LET i == IncrUd(w) IN
    IF i.w.curr_ud \notin DOMAIN i.w.senders
    THEN [id |-> i.out, w |-> i.w, found |-> TRUE]
    ELSE NextUuidLoop(i.w, IdMod - 1)
\* Faulty variant: the counter is left at the id returned, not one past it.
NextUuidStale(w) ==
  LET n == NextUuidLoop(w, IdMod - 1) IN [n EXCEPT !.w.curr_ud = n.id]
\* The loop either breaks with an id or, when every id is a key, never ends
\* (found = FALSE: IdMod iterations have tried every id, and nothing else
\* changes the keys).
NextUuid(w) == NextUuidLoop(w, IdMod - 1)

\* Faulty variant: the sender is stored under the counter's value, not
\* under the id returned.
InsertUnderCounter(w, user_data, s) ==
  LET old == IF w.curr_ud \in DOMAIN w.senders THEN {w.senders[w.curr_ud]} ELSE {} IN
    [w EXCEPT !.senders = MapInsert(@, w.curr_ud, s),
              !.tx = [t \in Subs |-> IF t = s THEN "reg"
                                     ELSE IF t \in old THEN "dropped" ELSE @[t]]]
\* Faulty variant: the sender is kept aside, to be registered after the push.
InsertDeferred(w, user_data, s) == [w EXCEPT !.tx[s] = "held"]
\* HashMap::insert: an old value under the key is replaced and dropped.
Insert(w, user_data, s) ==
  LET old == IF user_data \in DOMAIN w.senders THEN {w.senders[user_data]} ELSE {} IN
    [w EXCEPT !.senders = MapInsert(@, user_data, s),
              !.tx = [t \in Subs |-> IF t = s THEN "reg"
                                     ELSE IF t \in old THEN "dropped" ELSE @[t]]]

\* oneshot::Sender::send consumes the sender; with the receiver dropped it
\* returns Err and the message is dropped.  complete() ignores the result.
SendOn(w, s, entry) ==
  [w EXCEPT !.tx[s] = "used",
            !.sends[s] = @ + 1,
            !.val[s] = IF rx[s] = "dropped" THEN @ ELSE entry]

\* Faulty variant: the result of send is unwrapped.
CompleteUnwrapSend(w, entry) ==
  IF entry.ud \in DOMAIN w.senders
  THEN LET s == w.senders[entry.ud] IN
         [SendOn([w EXCEPT !.senders = MapRemove(@, entry.ud)], s, entry)
            EXCEPT !.panic = w.panic \/ rx[s] = "dropped"]
  ELSE [w EXCEPT !.ignored = @ \cup {entry.ud}]
\* Faulty variant: a missing key is a panic.
CompleteExpectKey(w, entry) ==
  IF entry.ud \in DOMAIN w.senders
  THEN SendOn([w EXCEPT !.senders = MapRemove(@, entry.ud)], w.senders[entry.ud], entry)
  ELSE [w EXCEPT !.panic = TRUE]
\* Faulty variant: the sender is looked up and not removed.
CompleteKeepKey(w, entry) ==
  IF entry.ud \in DOMAIN w.senders
  THEN SendOn(w, w.senders[entry.ud], entry)
  ELSE [w EXCEPT !.ignored = @ \cup {entry.ud}]
\* Registry::complete: remove the sender under the entry's user data and
\* send the entry on it; no sender, no effect.
Complete(w, entry) ==
  IF entry.ud \in DOMAIN w.senders
  THEN SendOn([w EXCEPT !.senders = MapRemove(@, entry.ud)], w.senders[entry.ud], entry)
  ELSE [w EXCEPT !.ignored = @ \cup {entry.ud}]

RECURSIVE BatchCompleteFrom(_, _, _)
BatchCompleteFrom(w, entries, i) ==
  IF i > Len(entries) \/ w.panic THEN w
  ELSE BatchCompleteFrom(Complete(w, entries[i]), entries, i + 1)

\* Faulty variant: only the first entry of the batch is completed.
BatchCompleteFirstOnly(w, entries) ==
  IF entries = <<>> THEN w ELSE Complete(w, entries[1])
BatchComplete(w, entries) == BatchCompleteFrom(w, entries, 1)

\* ------------------------------------------------------------------- ring
\* SubmissionQueue::push returns Err(entry) when the ring has no capacity.
\* The ring modelled has Cap slots; a slot is taken from the push of an
\* entry until its completion is drained.
RingFull == Cardinality(sq) + Cardinality(kernel) + Len(cq) >= Cap

\* CompletionQueueEntry produced for a submission queue entry: the user
\* data is echoed.
Cqe(e) == [ud |-> e.ud, sub |-> e.sub]

\* The backend completes an entry it was notified of.
BackendComplete(e) ==
  /\ pc \notin {"terminated", "panicked"}
  /\ e \in kernel
  /\ kernel' = kernel \ {e}
  /\ cq' = Append(cq, Cqe(e))
  /\ UNCHANGED <<callerVars, pc, cur, senders, curr_ud, sq, tx, rx, val,
                 sends, histVars, nspur, sendFailed>>

\* The ring produces a completion that echoes no submission of this worker.
BackendSpurious(ud) ==
  /\ pc \notin {"terminated", "panicked"}
  /\ nspur < MaxSpurious
  /\ nspur' = nspur + 1
  /\ cq' = Append(cq, [ud |-> ud, sub |-> 0])
  /\ UNCHANGED <<callerVars, pc, cur, senders, curr_ud, sq, kernel, tx, rx,
                 val, sends, histVars, sendFailed>>

\* ----------------------------------------------------------------- worker
\* Writes a World back to the variables; a panic unwinds the worker thread.
Commit(w, nextpc) ==
  /\ senders' = w.senders
  /\ curr_ud' = w.curr_ud
  /\ tx' = w.tx
  /\ val' = w.val
  /\ sends' = w.sends
  /\ ignored' = w.ignored
  /\ pc' = IF w.panic THEN "panicked" ELSE nextpc

\* Faulty variant: the newest signal is received first.
ChanRecvLast(q) == [sig |-> q[Len(q)], rest |-> SubSeq(q, 1, Len(q) - 1)]
\* mpsc Receiver: the signal received and what stays queued.
ChanRecv(q) == [sig |-> Head(q), rest |-> Tail(q)]

\* Faulty variant: the worker keeps a Sender of its own.
ChanClosedNever == FALSE
\* Faulty variant: an empty channel is taken for a closed one.
ChanClosedWhenEmpty == TRUE
\* Every Sender of the mpsc channel has been dropped.
ChanClosed == handles = {}

\* reap closure: registry.batch_complete(ring.completion()).
Reap(w) == BatchComplete(w, cq)

\* Signal::Entry, up to the first push: stamp the entry and register tx.
WorkerEntry ==
  /\ pc = "idle"
  /\ chan # <<>>
  /\ ChanRecv(chan).sig.type = "Entry"
  /\ chan' = ChanRecv(chan).rest
  /\ LET s == ChanRecv(chan).sig.sub
         n == NextUuid(World)
     IN IF n.found
        THEN /\ cur' = [sub |-> s, ud |-> n.id, by |-> ChanRecv(chan).sig.by,
                         failed |-> FALSE]
             /\ Commit(Insert(n.w, n.id, s), "push")
        ELSE /\ cur' = [sub |-> s, ud |-> -1, by |-> ChanRecv(chan).sig.by,
                         failed |-> FALSE]
             /\ Commit([n.w EXCEPT !.tx[s] = "held"], "spin")
  /\ mixed' = (mixed \/ (cur.sub # 0 /\ cur.by # ChanRecv(chan).sig.by))
  /\ ops' = <<>>
  /\ UNCHANGED <<handles, nsub, ringVars, rx, accepted, nspur, sendFailed>>

\* Faulty variant: the entry returned by the failed push is given up.
PushFullDropEntry ==
  /\ cq' = <<>>
  /\ kernel' = kernel \cup sq
  /\ sq' = {}
  /\ cur' = [cur EXCEPT !.failed = TRUE]
  /\ Commit(Reap(World), "idle")
  /\ ops' = IF cur.failed THEN ops ELSE ops \o <<"push_err", "drain", "notify">>
  /\ UNCHANGED <<accepted, mixed>>
\* Faulty variant: the loop reaps and retries without notifying the backend.
PushFullNoNotify ==
  /\ cq' = <<>>
  /\ cur' = [cur EXCEPT !.failed = TRUE]
  /\ Commit(Reap(World), "push")
  /\ ops' = IF cur.failed THEN ops ELSE ops \o <<"push_err", "drain">>
  /\ UNCHANGED <<sq, kernel, accepted, mixed>>
\* push returned Err: keep the entry, reap, notify, stay in the loop.
PushFull ==
  /\ cq' = <<>>
  /\ kernel' = kernel \cup sq
  /\ sq' = {}
  /\ cur' = [cur EXCEPT !.failed = TRUE]
  /\ Commit(Reap(World), "push")
  /\ ops' = IF cur.failed THEN ops ELSE ops \o <<"push_err", "drain", "notify">>
  /\ UNCHANGED <<accepted, mixed>>

\* push returned Ok: the ring holds the entry and the loop ends.
PushOk ==
  /\ accepted' = Append(accepted, [sub |-> cur.sub, ud |-> cur.ud])
  /\ sq' = sq \cup {[ud |-> cur.ud, sub |-> cur.sub]}
  /\ Commit(World, "notify")
  /\ ops' = Append(ops, "push_ok")
  /\ UNCHANGED <<cur, kernel, cq, mixed>>

\* One iteration of the while-let loop.
WorkerPush ==
  /\ pc = "push"
  /\ IF RingFull THEN PushFull ELSE PushOk
  /\ UNCHANGED <<callerVars, rx, nspur, sendFailed>>

\* ring.submit() after the loop: the backend learns of the pushed entries.
WorkerNotify ==
  /\ pc = "notify"
  /\ kernel' = kernel \cup sq
  /\ sq' = {}
  /\ Commit(World, "postreap")
  /\ ops' = Append(ops, "notify")
  /\ UNCHANGED <<callerVars, cur, cq, rx, accepted, mixed, nspur, sendFailed>>

\* The reap that follows the successful push.
WorkerPostReap ==
  /\ pc = "postreap"
  /\ cq' = <<>>
  /\ Commit(Reap(World), "idle")
  /\ ops' = Append(ops, "drain")
  /\ UNCHANGED <<callerVars, cur, sq, kernel, rx, accepted, mixed, nspur, sendFailed>>

\* Faulty variant: a Reap signal also notifies the backend.
WorkerReapNotify ==
  /\ pc = "idle"
  /\ chan # <<>>
  /\ ChanRecv(chan).sig.type = "Reap"
  /\ chan' = ChanRecv(chan).rest
  /\ cq' = <<>>
  /\ kernel' = kernel \cup sq
  /\ sq' = {}
  /\ Commit(Reap(World), "idle")
  /\ ops' = <<"drain", "notify">>
  /\ UNCHANGED <<handles, nsub, cur, rx, accepted, mixed, nspur, sendFailed>>
\* Signal::Reap.
WorkerReap ==
  /\ pc = "idle"
  /\ chan # <<>>
  /\ ChanRecv(chan).sig.type = "Reap"
  /\ chan' = ChanRecv(chan).rest
  /\ cq' = <<>>
  /\ Commit(Reap(World), "idle")
  /\ ops' = <<"drain">>
  /\ UNCHANGED <<handles, nsub, cur, sq, kernel, rx, accepted, mixed, nspur, sendFailed>>

\* Faulty variant: the Registry is leaked, its senders never dropped.
DropRegistryLeak(w) == w
\* Dropping the Registry drops every sender it still holds.
DropRegistry(w) ==
  [w EXCEPT !.senders = EmptyMap,
            !.tx = [t \in Subs |-> IF @[t] = "reg" THEN "dropped" ELSE @[t]]]

\* Faulty variant: the loop ends as soon as the channel is closed, with
\* signals still queued.
WorkerTerminateOnClose ==
  /\ pc = "idle"
  /\ ChanClosed
  /\ Commit(DropRegistry(World), "terminated")
  /\ sq' = {}
  /\ kernel' = {}
  /\ cq' = <<>>
  /\ UNCHANGED <<callerVars, cur, rx, histVars, nspur, sendFailed>>
\* The receiver iterator ends: the closure returns; registry and ring drop.
WorkerTerminate ==
  /\ pc = "idle"
  /\ chan = <<>>
  /\ ChanClosed
  /\ Commit(DropRegistry(World), "terminated")
  /\ sq' = {}
  /\ kernel' = {}
  /\ cq' = <<>>
  /\ UNCHANGED <<callerVars, cur, rx, histVars, nspur, sendFailed>>

\* ---------------------------------------------------------------- callers
\* The mpsc Receiver is dropped when the worker closure returns or unwinds.
ReceiverGone == pc \in {"terminated", "panicked"}

\* Faulty variant: a rendezvous channel, the send waits for the worker to be
\* receiving.
SendRendezvous(signal) ==
  /\ pc = "idle" /\ chan = <<>>
  /\ chan' = Append(chan, signal)
  /\ sendFailed' = sendFailed
\* PRingSender::send: Sender::send never blocks; it returns Err, which the
\* unwrap turns into a panic of the caller, when the Receiver is gone.
Send(signal) ==
  IF ReceiverGone
  THEN chan' = chan /\ sendFailed' = TRUE
  ELSE chan' = Append(chan, signal) /\ sendFailed' = sendFailed

\* PRingSender::submit: new_promise, then send(Signal::Entry(entry, tx)).
\* A failed send drops the signal with its tx, and the panic the promise.
Submit(c, limit) ==
  /\ c \in handles
  /\ nsub < limit
  /\ Len(chan) < MaxChan
  /\ nsub' = nsub + 1
  /\ Send(EntrySignal(nsub + 1, c))
  /\ tx' = [tx EXCEPT ![nsub + 1] = IF ReceiverGone THEN "dropped" ELSE "chan"]
  /\ rx' = [rx EXCEPT ![nsub + 1] = IF ReceiverGone THEN "dropped" ELSE "pending"]
  /\ UNCHANGED <<handles, pc, cur, senders, curr_ud, ringVars, val, sends,
                 histVars, nspur>>

\* Faulty variant: the caller drains the completion queue in its own thread.
ReapRequestDirect(c) ==
  /\ c \in handles
  /\ cq' = <<>>
  /\ Commit(Reap(World), pc)
  /\ UNCHANGED <<callerVars, cur, sq, kernel, rx, accepted, mixed, ops, nspur,
                 sendFailed>>
\* PRingSender::reap: send(Signal::Reap).
ReapRequest(c) ==
  /\ c \in handles
  /\ Len(chan) < MaxChan
  /\ Send(ReapSignal)
  /\ UNCHANGED <<handles, nsub, pc, cur, senders, curr_ud, ringVars, tx, rx,
                 val, sends, histVars, nspur>>

\* #[derive(Clone)]: caller c hands a clone to caller d.
CloneHandle(c, d) ==
  /\ c \in handles
  /\ d \notin handles
  /\ handles' = handles \cup {d}
  /\ UNCHANGED <<chan, nsub, pc, cur, senders, curr_ud, ringVars, tx, rx,
                 val, sends, histVars, nspur, sendFailed>>

DropHandle(c) ==
  /\ c \in handles
  /\ handles' = handles \ {c}
  /\ UNCHANGED <<chan, nsub, pc, cur, senders, curr_ud, ringVars, tx, rx,
                 val, sends, histVars, nspur, sendFailed>>

\* rx.recv() can return: a value was sent, or the sender is gone.
RecvReady(s) == val[s] # NoVal \/ tx[s] \in {"used", "dropped"}

\* Reading the promise: Ok(value) or Err(RecvError).
Recv(s) ==
  /\ rx[s] = "pending"
  /\ RecvReady(s)
  /\ rx' = [rx EXCEPT ![s] = IF val[s] # NoVal THEN "ok" ELSE "err"]
  /\ UNCHANGED <<callerVars, pc, cur, senders, curr_ud, ringVars, tx, val,
                 sends, histVars, nspur, sendFailed>>

\* The caller drops the promise without reading it.
DropPromise(s) ==
  /\ rx[s] = "pending"
  /\ Cardinality({t \in Subs : rx[t] = "dropped"}) < MaxDrops
  /\ rx' = [rx EXCEPT ![s] = "dropped"]
  /\ UNCHANGED <<callerVars, pc, cur, senders, curr_ud, ringVars, tx, val,
                 sends, histVars, nspur, sendFailed>>

\* ---------------------------------------------------------- specification
\* PRingSender::new: one handle, an empty channel, the worker spawned with
\* an empty Registry.
Init ==
  /\ handles = {1}
  /\ chan = <<>>
  /\ nsub = 0
  /\ pc = "idle"
  /\ cur = [sub |-> 0, ud |-> -1, by |-> 0, failed |-> FALSE]
  /\ senders = EmptyMap
  /\ curr_ud = 0
  /\ sq = {}
  /\ kernel = {}
  /\ cq = <<>>
  /\ tx = [s \in Subs |-> "none"]
  /\ rx = [s \in Subs |-> "none"]
  /\ val = [s \in Subs |-> NoVal]
  /\ sends = [s \in Subs |-> 0]
  /\ accepted = <<>>
  /\ ignored = {}
  /\ mixed = FALSE
  /\ ops = <<>>
  /\ nspur = 0
  /\ sendFailed = FALSE

Worker ==
  \/ WorkerEntry \/ WorkerPush \/ WorkerNotify \/ WorkerPostReap
  \/ WorkerReap \/ WorkerTerminate
Backend == \E e \in kernel : BackendComplete(e)
Caller(limit) ==
  \/ \E c \in Callers : Submit(c, limit) \/ ReapRequest(c) \/ DropHandle(c)
  \/ \E c, d \in Callers : CloneHandle(c, d)
  \/ \E s \in Subs : Recv(s) \/ DropPromise(s)

\* The ring echoes exactly the submissions it accepted.
Next == Worker \/ Backend \/ Caller(MaxSubmits)
Spec == Init /\ [][Next]_vars

\* The ring may also produce completions that echo no submission.
SpuriousNext ==
  \/ Worker \/ Backend \/ Caller(SpuriousSubmits)
  \/ \E ud \in Ids : BackendSpurious(ud)
SpuriousSpec == Init /\ [][SpuriousNext]_vars

\* The worker thread is scheduled, and the ring's backend makes progress on
\* the entries it was notified of.
LiveNext == Worker \/ Backend \/ Caller(LiveSubmits)
FairSpec == Init /\ [][LiveNext]_vars /\ WF_vars(Worker) /\ WF_vars(Backend)

\* ------------------------------------------------------------- properties
\* The entries the ring has accepted and not yet completed.
InFlight == sq \cup kernel
\* The user data of the completions waiting in the completion queue.
CqUds == {cq[i].ud : i \in 1 .. Len(cq)}
\* The submissions push() has returned Ok for.
AcceptedSubs == {accepted[i].sub : i \in 1 .. Len(accepted)}
\* The user data the worker stamped on submission s (-1: not accepted).
UdOf(s) ==
  IF s \in AcceptedSubs
  THEN accepted[CHOOSE i \in 1 .. Len(accepted) : accepted[i].sub = s].ud
  ELSE -1
\* The completion the ring produces for submission s.
OwnCompletion(s) == [ud |-> UdOf(s), sub |-> s]

\* C2: at most one value is ever sent on a reply channel, and the value a
\* pending-result holds or was read as is the completion produced for its
\* own submission, whatever the order of callers and completions.
C2_DeliveredOnceToOwner ==
  \A s \in Subs :
    /\ sends[s] <= 1
    /\ val[s] # NoVal => (s \in AcceptedSubs /\ val[s] = OwnCompletion(s))
    /\ rx[s] = "ok" => val[s] = OwnCompletion(s)
\* A later submission has resolved to its own completion and been read
\* while an earlier one, accepted before it, is still waiting.
C2_Witness ==
  \E s, t \in Subs :
    /\ s < t
    /\ s \in AcceptedSubs /\ tx[s] = "reg" /\ val[s] = NoVal
    /\ rx[t] = "ok" /\ val[t] = OwnCompletion(t) /\ sends[t] = 1

\* C3: any two submissions in flight on the ring (accepted, not yet
\* completed by it) carry different tracking ids, also after the counter
\* has wrapped.
C3_InFlightIdsDiffer ==
  \A e1, e2 \in InFlight : e1.ud = e2.ud => e1.sub = e2.sub
\* The counter has wrapped and skipped the id of a submission in flight.
C3_Witness ==
  \E e1, e2 \in kernel :
    /\ e1.sub < e2.sub
    /\ e2.sub > IdMod
    /\ e1.ud = (e2.sub - 1) % IdMod
    /\ e2.ud # e1.ud

\* C5 (as claimed): the keys of the Registry are exactly the ids of the
\* submissions accepted onto the ring whose completion the worker has not
\* yet observed.
C5_Original ==
  DOMAIN senders = {e.ud : e \in InFlight} \cup CqUds
\* C5 (amended): the keys of the Registry are exactly the ids of the
\* submissions the worker has registered, that is accepted onto the ring
\* or being pushed right now, whose completion it has not yet observed;
\* each key maps to the reply channel of that submission.
C5_KeysAreRegisteredUnobserved ==
  LET pushing == IF pc = "push" THEN {[ud |-> cur.ud, sub |-> cur.sub]} ELSE {}
      outstanding == InFlight \cup {cq[i] : i \in 1 .. Len(cq)} \cup pushing
  IN /\ DOMAIN senders = {e.ud : e \in outstanding}
     /\ \A e \in outstanding : senders[e.ud] = e.sub /\ tx[e.sub] = "reg"
\* An id is a key while its entry has been refused by the full ring, with
\* other keys' completions observed and their keys removed.
C5_Witness ==
  /\ pc = "push" /\ cur.failed /\ RingFull
  /\ cur.ud \in DOMAIN senders
  /\ cur.sub \notin AcceptedSubs
  /\ \E s \in Subs : tx[s] = "used"

\* C7: reading a pending-result returns once the worker has delivered or
\* has terminated without delivering: after termination the sender of every
\* submitted entry is used or dropped, a read fails with RecvError only when
\* the sender was dropped at termination without a value, and a read that
\* succeeds returns the value sent.
C7_ReadEndsAtTermination ==
  \A s \in Subs :
    /\ (pc = "terminated" /\ tx[s] # "none") => tx[s] \in {"used", "dropped"}
    /\ (pc = "terminated" /\ rx[s] = "pending") => RecvReady(s)
    /\ rx[s] = "err" => (tx[s] = "dropped" /\ val[s] = NoVal /\ pc = "terminated")
    /\ rx[s] = "ok" => val[s] # NoVal
    /\ (rx[s] = "pending" /\ RecvReady(s)) => (val[s] # NoVal \/ tx[s] = "dropped")
\* A read has failed with RecvError after the worker terminated with the
\* entry accepted and not completed.
C7_Witness ==
  \E s \in Subs :
    rx[s] = "err" /\ pc = "terminated" /\ s \in AcceptedSubs

\* A worker step that drains a non-empty completion queue into the Registry
\* (the reap closure); termination empties the queue by dropping the ring.
DrainStep == cq # <<>> /\ cq' = <<>> /\ pc' # "terminated"
\* The first completion of the batch that carries user data k.
FirstWith(k) ==
  cq[CHOOSE i \in 1 .. Len(cq) : cq[i].ud = k /\ \A j \in 1 .. (i - 1) : cq[j].ud # k]
\* The key the sender of submission s is registered under.
KeyOf(s) == CHOOSE k \in DOMAIN senders : senders[k] = s

\* Every Entry signal the worker has finished with was accepted exactly
\* once, and what the ring holds is registered under the stamped id.
C4_Inv ==
  /\ \A i, j \in 1 .. Len(accepted) : accepted[i].sub = accepted[j].sub => i = j
  /\ \A s \in Subs :
       (tx[s] \notin {"none", "chan"} /\ ~(pc = "push" /\ cur.sub = s))
         => s \in AcceptedSubs
  /\ \A e \in InFlight \cup {cq[i] : i \in 1 .. Len(cq)} :
       /\ e.ud = UdOf(e.sub)
       /\ e.ud \in DOMAIN senders /\ senders[e.ud] = e.sub
  /\ pc = "push" => (cur.ud \in DOMAIN senders /\ senders[cur.ud] = cur.sub)
\* Every attempt carries the same entry, and the ring accepts it only when
\* it has capacity.
C4_Act ==
  /\ pc = "push" =>
       /\ pc' \in {"push", "notify"}
       /\ cur'.sub = cur.sub /\ cur'.ud = cur.ud
  /\ accepted' # accepted =>
       /\ pc = "push" /\ pc' = "notify" /\ ~RingFull
       /\ accepted' = Append(accepted, [sub |-> cur.sub, ud |-> cur.ud])
       /\ [ud |-> cur.ud, sub |-> cur.sub] \in sq'
\* C4: an entry refused by a full ring is neither dropped nor duplicated:
\* every Entry signal the worker has finished with was accepted exactly
\* once, every attempt carries the id stamped at registration, and what the
\* ring holds stays registered under that id for the entry's reply channel.
C4_RetriedUntilAccepted == [](C4_Inv) /\ [][C4_Act]_vars
\* An entry the full ring refused at least once was accepted and its
\* completion has reached its own reply channel.
C4_Witness ==
  /\ cur.failed /\ pc = "idle"
  /\ cur.sub \in AcceptedSubs
  /\ val[cur.sub] = [ud |-> cur.ud, sub |-> cur.sub]

\* The effect of a drain whose batch holds an id that is no key.
C8_Act ==
  (DrainStep /\ (CqUds \ DOMAIN senders) # {}) =>
    /\ pc' \in {"idle", "push"}
    /\ (CqUds \ DOMAIN senders) \subseteq ignored'
    /\ DOMAIN senders' = (DOMAIN senders) \ CqUds
    /\ \A k \in DOMAIN senders' : senders'[k] = senders[k]
    /\ \A s \in Subs :
         IF \E k \in (DOMAIN senders) \cap CqUds : senders[k] = s
         THEN /\ tx'[s] = "used"
              /\ sends'[s] = sends[s] + 1
              /\ val'[s] = IF rx[s] = "dropped" THEN NoVal ELSE FirstWith(KeyOf(s))
         ELSE tx'[s] = tx[s] /\ sends'[s] = sends[s] /\ val'[s] = val[s]
\* C8: a drain that meets a completion whose id is no key neither crashes
\* nor stops the worker; the completion is discarded, keys not named in the
\* batch keep their senders, and each key named in the batch is removed
\* and its sender sent the first completion carrying it.
C8_UnmatchedCompletionIgnored == [][C8_Act]_vars
\* A completion with no registered id was discarded, the worker goes on,
\* one submission has its own completion and another is still registered.
C8_Witness ==
  /\ ignored # {}
  /\ pc \in {"idle", "push"}
  /\ \E s, t \in Subs : val[s] = OwnCompletion(s) /\ tx[t] = "reg"

\* The effect of a drain whose batch completes a dropped promise.
C9_Act ==
  DrainStep =>
    \A s \in Subs :
      (rx[s] = "dropped" /\ tx[s] = "reg" /\ KeyOf(s) \in CqUds) =>
        /\ pc' \in {"idle", "push"}
        /\ tx'[s] = "used" /\ val'[s] = NoVal
        /\ KeyOf(s) \notin DOMAIN senders'
        /\ \A t \in Subs \ {s} :
             tx[t] = "reg" =>
               IF KeyOf(t) \in CqUds
               THEN tx'[t] = "used" /\ (rx[t] # "dropped" => val'[t] = OwnCompletion(t))
               ELSE /\ tx'[t] = "reg"
                    /\ KeyOf(t) \in DOMAIN senders' /\ senders'[KeyOf(t)] = t
\* C9: when the completion of a submission whose promise was dropped is
\* drained, the worker goes on, the send is a no-op that consumes the
\* sender and removes the key, and every other registered sender is sent
\* its own completion if the batch holds it and stays registered if not.
C9_AbandonedResultIgnored == [][C9_Act]_vars
\* The completion of a dropped promise was drained without delivery, and
\* another submission holds its own completion.
C9_Witness ==
  /\ pc \in {"idle", "push", "notify", "postreap"}
  /\ \E s, t \in Subs :
       /\ s # t
       /\ rx[s] = "dropped" /\ tx[s] = "used" /\ sends[s] = 1 /\ val[s] = NoVal
       /\ val[t] = OwnCompletion(t)

\* Entries are accepted, and queued, in the order of their submissions.
C10_Inv ==
  /\ \A i \in 1 .. Len(accepted) : accepted[i].sub = i
  /\ \A i, j \in 1 .. Len(chan) :
       (i < j /\ chan[i].type = "Entry" /\ chan[j].type = "Entry")
         => chan[i].sub < chan[j].sub
\* The channel is first in, first out, and read only by an idle worker.
C10_Act ==
  /\ Len(chan') < Len(chan) =>
       /\ pc = "idle"
       /\ chan' = Tail(chan)
       /\ Head(chan).type = "Entry" => (pc' = "push" /\ cur'.sub = Head(chan).sub)
  /\ Len(chan') > Len(chan) => chan' = Append(chan, chan'[Len(chan')])
\* C10: the worker takes a signal only when it has finished the one before
\* and always takes the oldest one; so the ring accepts the entries in the
\* order their Entry signals were enqueued, whichever caller sent them.
C10_SignalsInEnqueueOrder == [](C10_Inv) /\ [][C10_Act]_vars
\* Entries sent by different callers have been accepted.
C10_Witness == Len(accepted) >= 3 /\ mixed

\* C6: once every PRingSender has been dropped the worker reaches
\* Terminated, with no join or shutdown call.
C6_WorkerTerminates == (handles = {}) ~> (pc = "terminated")
\* The worker has terminated after running into a full ring.
C6_Witness == pc = "terminated" /\ handles = {} /\ cur.failed

\* C1 (as claimed): once the ring has produced the completion of a
\* submission, its pending-result eventually resolves to that completion.
C1_Original ==
  \A s \in Subs :
    (s \in AcceptedSubs /\ \E i \in 1 .. Len(cq) : cq[i] = OwnCompletion(s))
      ~> (val[s] = OwnCompletion(s) \/ rx[s] = "dropped")
\* A drain resolves every pending-result whose completion it finds to that
\* completion.
C1_DrainDelivers ==
  DrainStep =>
    \A i \in 1 .. Len(cq) :
      /\ cq[i].sub \in AcceptedSubs /\ cq[i] = OwnCompletion(cq[i].sub)
      /\ val'[cq[i].sub] = cq[i] \/ rx[cq[i].sub] = "dropped"
\* C1 (amended): every entry sent is eventually accepted by the ring; when
\* completions are waiting and the worker is processing a signal or has
\* one queued, the completion queue is eventually drained; and a drain
\* resolves every pending-result whose completion it finds to that
\* completion.
C1_ResolvesWhenDrained ==
  /\ []<>(Len(accepted) = nsub)
  /\ (cq # <<>> /\ (pc \in {"push", "notify", "postreap"} \/ chan # <<>>))
       ~> (cq = <<>> /\ pc # "terminated")
  /\ [][C1_DrainDelivers]_vars
\* Every submission of a run made by different callers has resolved to its
\* own completion.
C1_Witness ==
  /\ Len(accepted) = LiveSubmits /\ mixed
  /\ \A s \in AcceptedSubs : val[s] = OwnCompletion(s) /\ rx[s] = "ok"

\* A step of a caller thread: a handle cloned or dropped, a signal sent, a
\* promise read or dropped.
CallerStep ==
  \/ handles' # handles \/ nsub' # nsub \/ Len(chan') > Len(chan)
  \/ rx' # rx \/ sendFailed' # sendFailed
\* A step that operates on the ring: a push, a notify, a drain, or the drop
\* of the ring.
RingTouched ==
  \/ sq' # sq \/ (kernel' \ kernel) # {} \/ Len(cq') < Len(cq) \/ ops' # ops
C11_Act ==
  /\ RingTouched =>
       /\ ~CallerStep
       /\ pc \in {"idle", "push", "notify", "postreap"}
       /\ pc = "idle" => ((chan # <<>> /\ chan' = Tail(chan)) \/ pc' = "terminated")
  /\ CallerStep =>
       /\ UNCHANGED <<ringVars, ops, pc, cur, senders, curr_ud, val, sends,
                      accepted, ignored>>
       /\ \A s \in Subs : tx'[s] # tx[s] => (s = nsub + 1 /\ nsub' = nsub + 1)
       /\ chan' # chan => chan' = Append(chan, chan'[Len(chan')])
\* C11: one thread touches the ring: every push, drain and notify is a step
\* of the worker at its own position (an idle worker only with the signal
\* it receives), and a step of a caller changes only the handles, the
\* signal channel and the caller's own reply channel, never the ring, the
\* Registry or the worker's position.
C11_OnlyWorkerTouchesRing == [][C11_Act]_vars
\* With both callers holding a handle and a signal queued, the worker has
\* made a failed push, drains and notifies and the successful push of an
\* entry.
C11_Witness ==
  /\ Cardinality(handles) = NumCallers /\ mixed /\ chan # <<>>
  /\ Len(ops) = 6

\* Wherever the worker is, a caller holding a handle can submit and can
\* request a reap (up to the bounds on the calls made and on the channel).
C12_Inv ==
  \A c \in handles :
    /\ (nsub < MaxSubmits /\ Len(chan) < MaxChan) => ENABLED Submit(c, MaxSubmits)
    /\ Len(chan) < MaxChan => ENABLED ReapRequest(c)
\* A submit enqueues one Entry signal and returns the pending-result
\* unresolved; neither call moves the worker or the ring.
C12_Act ==
  /\ nsub' # nsub =>
       /\ \E c \in handles : chan' = Append(chan, EntrySignal(nsub + 1, c))
       /\ rx'[nsub + 1] = "pending" /\ tx'[nsub + 1] = "chan"
       /\ val'[nsub + 1] = NoVal
       /\ UNCHANGED <<pc, cur, ringVars, senders, ops>>
  /\ Len(chan') > Len(chan) =>
       /\ Len(chan') = Len(chan) + 1
       /\ UNCHANGED <<pc, cur, ringVars, senders, ops>>
\* C12: submit and reap never wait for the worker: in every worker state,
\* the push-retry loop on a full ring included, each call is enabled and
\* completes by enqueueing one signal, and submit returns its
\* pending-result before anything is delivered.
C12_SubmitNeverBlocks == [](C12_Inv) /\ [][C12_Act]_vars
\* The worker is retrying a push on a full ring and the channel holds
\* signals enqueued since it took the entry, the newest an Entry whose
\* pending-result is unresolved.
C12_Witness ==
  /\ pc = "push" /\ cur.failed /\ RingFull
  /\ Len(chan) = MaxChan
  /\ chan[Len(chan)].type = "Entry" /\ chan[1].type = "Reap"
  /\ rx[chan[Len(chan)].sub] = "pending"

RetryRound == <<"push_err", "drain", "notify">>
AfterPush == <<"push_ok", "notify", "drain">>
\* The operations made so far for the entry being pushed.
LoopOps == IF cur.failed THEN RetryRound ELSE <<>>
\* At each position of the worker, the ring operations made for the signal
\* it took last are a prefix of: failed rounds of push, drain, notify; the
\* successful push; notify; drain.
C14_Inv ==
  /\ pc = "push" => ops = LoopOps
  /\ pc = "notify" => ops = LoopOps \o <<"push_ok">>
  /\ pc = "postreap" => ops = LoopOps \o <<"push_ok", "notify">>
  /\ pc \in {"idle", "terminated"} =>
       ops \in {<<>>, <<"drain">>, AfterPush, RetryRound \o AfterPush}
\* A full ring keeps the worker in the loop with the same entry, each
\* failed round draining and notifying; the push that succeeds is the only
\* one; the next signal is taken after the final drain.
C14_Act ==
  /\ (pc = "push" /\ RingFull) =>
       /\ pc' = "push" /\ accepted' = accepted
       /\ cur'.sub = cur.sub /\ cur'.ud = cur.ud
       /\ (cur' # cur \/ Len(cq') < Len(cq)) =>
            (cq' = <<>> /\ sq' = {} /\ kernel' = kernel \cup sq /\ cur'.failed)
  /\ (pc = "push" /\ pc' # "push") =>
       /\ ~RingFull /\ pc' = "notify"
       /\ Len(accepted') = Len(accepted) + 1
  /\ accepted' # accepted => pc = "push"
  /\ (pc = "notify" /\ pc' # pc) => (pc' = "postreap" /\ sq' = {} /\ kernel' = kernel \cup sq)
  /\ (pc = "postreap" /\ pc' # pc) => (pc' = "idle" /\ cq' = <<>>)
  /\ Len(chan') < Len(chan) =>
       /\ pc = "idle"
       /\ ops \in {<<>>, <<"drain">>, AfterPush, RetryRound \o AfterPush}
\* C14: for one Entry signal the worker's ring operations are, in order:
\* a push; for every push that fails, a drain, a notify and a retry with
\* the same entry, for as long as the ring is full; the one push that
\* succeeds; a notify; one more drain; and only then the next signal.
C14_EntryRingOpsInOrder == [](C14_Inv) /\ [][C14_Act]_vars
\* An Entry signal was processed to the end through a failed round, and
\* the final drain delivered a completion.
C14_Witness ==
  /\ pc = "idle" /\ ops = RetryRound \o AfterPush
  /\ \E s \in Subs : tx[s] = "used" /\ val[s] # NoVal

\* The worker takes a Reap signal.
ReapSignalStep ==
  /\ pc = "idle" /\ chan # <<>> /\ Head(chan).type = "Reap"
  /\ chan' = Tail(chan)
C15_Act ==
  ReapSignalStep =>
    /\ ops' = <<"drain">>
    /\ cq' = <<>> /\ pc' = "idle"
    /\ UNCHANGED <<sq, kernel, accepted, curr_ud, cur>>
    /\ DOMAIN senders' = (DOMAIN senders) \ CqUds
    /\ \A k \in DOMAIN senders' : senders'[k] = senders[k]
    /\ \A s \in Subs : tx'[s] # tx[s] => (tx[s] = "reg" /\ tx'[s] = "used")
\* C15: processing a Reap signal only drains the completion queue into the
\* Registry: it makes no push and no notify, leaves the id counter and the
\* submission side of the ring unchanged, adds no key, and removes exactly
\* the keys the drained completions carry.
C15_ReapOnlyDrains == [][C15_Act]_vars
\* A Reap signal was processed with the counter advanced and a submission
\* resolved, while another submission stays registered and in progress.
C15_Witness ==
  /\ pc = "idle" /\ ops = <<"drain">>
  /\ curr_ud # 0 /\ kernel # {}
  /\ \E s \in Subs : tx[s] = "used" /\ val[s] = OwnCompletion(s)

\* The entries of a batch that are the first to carry their user data.
RECURSIVE FirstOnly(_, _)
FirstOnly(entries, seen) ==
  IF entries = <<>> THEN <<>>
  ELSE IF Head(entries).ud \in seen THEN FirstOnly(Tail(entries), seen)
  ELSE <<Head(entries)>> \o FirstOnly(Tail(entries), seen \cup {Head(entries).ud})
\* The Registry and the reply channels of a World.
Delivered(w) == <<w.senders, w.curr_ud, w.tx, w.val, w.sends, w.panic>>
\* batch_complete applied to the completion queue as it stands.
C16_Inv ==
  LET all == BatchComplete(World, cq)
      first == BatchComplete(World, FirstOnly(cq, {}))
  IN /\ Delivered(all) = Delivered(first)
     /\ \A k \in (DOMAIN senders) \cap CqUds :
          /\ k \notin DOMAIN all.senders
          /\ all.sends[senders[k]] = sends[senders[k]] + 1
          /\ all.val[senders[k]] =
               IF rx[senders[k]] = "dropped" THEN NoVal ELSE FirstWith(k)
\* The drain the worker makes leaves what completing the first ones alone
\* leaves.
C16_Act ==
  DrainStep =>
    LET first == BatchComplete(World, FirstOnly(cq, {}))
    IN <<senders', curr_ud', tx', val', sends'>>
         = <<first.senders, first.curr_ud, first.tx, first.val, first.sends>>
\* C16: when a batch holds several completions with the same id, the reply
\* channel registered under the id is sent the first of them in iteration
\* order, once; the later ones change neither the Registry nor any reply
\* channel: the result is that of completing the first of each id alone.
C16_FirstDeliveryWins == [](C16_Inv) /\ [][C16_Act]_vars
\* The completion queue holds two different completions with the same id,
\* and the id is a key.
C16_Witness ==
  \E i, j \in 1 .. Len(cq) :
    /\ i < j /\ cq[i].ud = cq[j].ud /\ cq[i] # cq[j]
    /\ cq[i].ud \in DOMAIN senders
    /\ pc \in {"push", "postreap"}

\* The first value at or after counter c, modulo the id space, that is not
\* in keys.
FirstFreeFrom(keys, c) ==
  LET d == CHOOSE x \in 0 .. (IdMod - 1) :
             /\ (c + x) % IdMod \notin keys
             /\ \A y \in 0 .. (x - 1) : (c + y) % IdMod \in keys
  IN (c + d) % IdMod
\* next_uuid applied to the Registry as it stands.
C17_Inv ==
  DOMAIN senders # Ids =>
    LET n == NextUuid(World) IN
      /\ n.found
      /\ n.id = FirstFreeFrom(DOMAIN senders, curr_ud)
      /\ n.id \notin DOMAIN senders
      /\ n.w.curr_ud = (n.id + 1) % IdMod
      /\ n.w = [World EXCEPT !.curr_ud = n.w.curr_ud]
\* The id the worker stamps on an entry, and the counter it leaves.
C17_Act ==
  /\ (pc = "idle" /\ pc' = "push") =>
       /\ cur'.ud = FirstFreeFrom(DOMAIN senders, curr_ud)
       /\ curr_ud' = (cur'.ud + 1) % IdMod
       /\ DOMAIN senders' = (DOMAIN senders) \cup {cur'.ud}
  /\ pc' = "spin" => (pc = "spin" \/ DOMAIN senders = Ids)
\* C17: next_uuid returns the first value at or after the counter, modulo
\* the width of the id space, that is not a key of the Registry, and
\* leaves the counter one past it, modulo the width; it returns whenever
\* at least one id is not a key.
C17_NextUuidFirstFree == [](C17_Inv) /\ [][C17_Act]_vars
\* The worker has stamped an id found by skipping a key after the counter
\* wrapped, and the counter again stands on a key.
C17_Witness ==
  /\ pc = "push" /\ cur.sub > IdMod
  /\ cur.ud # (cur.sub - 1) % IdMod
  /\ curr_ud = (cur.ud + 1) % IdMod
  /\ curr_ud \in DOMAIN senders

\* The number of Entry signals on the channel that carry the sender of
\* submission s, and the keys it is stored under.
InChan(s) ==
  Cardinality({i \in 1 .. Len(chan) : chan[i].type = "Entry" /\ chan[i].sub = s})
KeysOf(s) == {k \in DOMAIN senders : senders[k] = s}
\* The sender of every submission made is in one place.
C18_Inv ==
  \A s \in Subs :
    /\ tx[s] = "none" <=> s > nsub
    /\ tx[s] \in {"none", "chan", "reg", "used", "dropped"}
    /\ InChan(s) = (IF tx[s] = "chan" THEN 1 ELSE 0)
    /\ Cardinality(KeysOf(s)) = (IF tx[s] = "reg" THEN 1 ELSE 0)
    /\ sends[s] = (IF tx[s] = "used" THEN 1 ELSE 0)
    /\ tx[s] = "dropped" => (pc = "terminated" /\ val[s] = NoVal)
\* A sender moves from the channel to the Registry and from there to its
\* one delivery or to the drop at termination; a key present keeps its
\* sender.
C18_Act ==
  /\ \A k \in (DOMAIN senders) \cap (DOMAIN senders') : senders'[k] = senders[k]
  /\ \A s \in Subs :
       tx'[s] # tx[s] =>
         <<tx[s], tx'[s]>> \in {<<"none", "chan">>, <<"chan", "reg">>,
                                <<"reg", "used">>, <<"reg", "dropped">>}
\* C18: the producer of each reply channel is at any time in exactly one
\* place: in an Entry signal queued on the channel, the value of exactly
\* one key of the Registry, consumed by its one delivery, or dropped at
\* the worker's termination; it is never under two keys and never
\* replaced by an insert under a key in use.
C18_ProducerInOnePlace == [](C18_Inv) /\ [][C18_Act]_vars
\* The first submission's sender was consumed, a later one is stored under
\* the same id, and another sender is registered too.
C18_Witness ==
  /\ tx[1] = "used"
  /\ \E s, t \in Subs :
       /\ s # t /\ tx[s] = "reg" /\ tx[t] = "reg"
       /\ KeysOf(s) = {UdOf(1)}

\* A terminated worker has left nothing on the channel: every entry
\* submitted was stamped, registered and accepted by the ring.
C19_Inv ==
  pc = "terminated" =>
    /\ chan = <<>> /\ handles = {}
    /\ Len(accepted) = nsub
    /\ \A s \in 1 .. nsub :
         /\ s \in AcceptedSubs /\ UdOf(s) \in Ids
         /\ tx[s] \in {"used", "dropped"}
\* The worker terminates from idle with the channel closed and empty;
\* until then a queued signal leaves the channel only by being processed.
C19_Act ==
  /\ (pc' = "terminated" /\ pc # "terminated") =>
       (pc = "idle" /\ chan = <<>> /\ handles = {})
  /\ (handles = {} /\ chan # <<>>) =>
       /\ pc' # "terminated"
       /\ chan' # chan =>
            /\ pc = "idle" /\ chan' = Tail(chan)
            /\ Head(chan).type = "Entry" =>
                 /\ pc' = "push" /\ cur'.sub = Head(chan).sub
                 /\ cur'.ud \in DOMAIN senders'
                 /\ senders'[cur'.ud] = Head(chan).sub
\* C19: closing the channel does not discard what is queued: the worker
\* enters Terminated only with the channel closed and empty, so every
\* signal enqueued before the last handle was dropped is processed first,
\* and an Entry sent just before the drop is stamped, registered and
\* pushed.
C19_QueuedSignalsProcessedFirst == [](C19_Inv) /\ [][C19_Act]_vars
\* The last handle is gone while the idle worker still has an Entry
\* signal, sent by the caller that dropped it, to take.
C19_Witness ==
  /\ handles = {} /\ pc = "idle"
  /\ chan # <<>> /\ chan[Len(chan)].type = "Entry"
  /\ chan[Len(chan)].sub = nsub

\* C20: while at least one handle exists the worker has not terminated and
\* the Receiver is alive, so the channel send inside submit and reap never
\* returns Err and the unwrap never panics.
C20_SendNeverFails ==
  /\ handles # {} => (pc # "terminated" /\ ~ReceiverGone)
  /\ ~sendFailed
\* The first handle is gone, its clone is the only one left, and the
\* newest signal on the channel is an Entry the clone has sent; the worker
\* is busy with an earlier entry on a full ring.
C20_Witness ==
  /\ handles = {2}
  /\ chan # <<>> /\ chan[Len(chan)] = EntrySignal(nsub, 2)
  /\ cur.by = 1 /\ pc = "push" /\ cur.failed
  /\ ~sendFailed
====
